---- MODULE Spec2Model ----
(***************************************************************************)
(* A model of the DOCX check/fix tool of src/ai_studio_code.py:             *)
(* TableRuleEngine.get_table_config, EnhancedDocxProcessor and the          *)
(* DocxFormatChecker orchestrator (browse_file, check_format, apply_fixes). *)
(*                                                                         *)
(* Representation.                                                         *)
(*   text       a sequence of tokens (words, " " and "\n"); str.lower,      *)
(*              str.strip, " ".join and the substring test `in` are        *)
(*              computed on the tokens.                                    *)
(*   run        [name, size]: font name ("None" when unset) and size in pt  *)
(*              (None when unset).                                         *)
(*   paragraph  [style, alignment, text, runs, image, space_before,         *)
(*              space_after, line_spacing, field]; image is the xpath test  *)
(*              './/w:drawing', field is "the XML holds a TOC field code",  *)
(*              line_spacing is kept in 240ths of a line as in the file.    *)
(*   block      a body element: a paragraph or a table (rows of cells of    *)
(*              paragraphs), in document order.                            *)
(*   document   [body, props, ok]; ok = FALSE is a file Document() cannot   *)
(*              parse.                                                     *)
(*   path       a sequence of tokens such as <<"r", ".docx">>.              *)
(***************************************************************************)
EXTENDS Integers, Sequences, FiniteSets, TLC

None == -1

\* Bounds of the model.
MaxClock == 1
MaxDerived == 0
MaxPasses == 2
MaxRuns == 2
MaxBodyRows == 1
MaxBlocks == 3

(* ------------------------------------------------------------------ *)
(* Strings                                                            *)
(* ------------------------------------------------------------------ *)

LowerMap ==
  [t \in {"Publication", "Number", "Priority", "Date", "Filing", "Inventor(s)",
          "Assignee(s)", "Claim", "Element", "Supported:", "Not", "Support", "P",
          "Item", "TOC"} |->
     CASE t = "Publication" -> "publication"
       [] t = "Number"      -> "number"
       [] t = "Priority"    -> "priority"
       [] t = "Date"        -> "date"
       [] t = "Filing"      -> "filing"
       [] t = "Inventor(s)" -> "inventor(s)"
       [] t = "Assignee(s)" -> "assignee(s)"
       [] t = "Claim"       -> "claim"
       [] t = "Element"     -> "element"
       [] t = "Supported:"  -> "supported:"
       [] t = "Not"         -> "not"
       [] t = "Support"     -> "support"
       [] t = "P"           -> "p"
       [] t = "Item"        -> "item"
       [] t = "TOC"         -> "toc"]

\* str.lower() on one token: a token with no upper-case letter is unchanged.
LowerTok(t) == IF t \in DOMAIN LowerMap THEN LowerMap[t] ELSE t

lower(s) == [i \in 1..Len(s) |-> LowerTok(s[i])]

IsSpace(t) == t \in {" ", "\n"}

RECURSIVE lstrip(_)
lstrip(s) == IF s # <<>> /\ IsSpace(Head(s)) THEN lstrip(Tail(s)) ELSE s

RECURSIVE rstrip(_)
rstrip(s) ==
  IF s # <<>> /\ IsSpace(s[Len(s)]) THEN rstrip(SubSeq(s, 1, Len(s) - 1)) ELSE s

strip(s) == rstrip(lstrip(s))

\* sep.join(parts)
RECURSIVE join(_, _)
join(sep, parts) ==
  IF parts = <<>> THEN <<>>
  ELSE IF Len(parts) = 1 THEN parts[1]
  ELSE parts[1] \o <<sep>> \o join(sep, Tail(parts))

\* needle in hay (substring)
In(needle, hay) ==
  \E i \in 0..(Len(hay) - Len(needle)) :
     \A k \in 1..Len(needle) : hay[i + k] = needle[k]

\* s.replace(old, new) for a one-token old: every occurrence is replaced.
RECURSIVE replace(_, _, _)
replace(s, old, new) ==
  IF s = <<>> THEN <<>>
  ELSE (IF Head(s) = old THEN new ELSE <<Head(s)>>) \o replace(Tail(s), old, new)

(* ------------------------------------------------------------------ *)
(* python-docx accessors                                              *)
(* ------------------------------------------------------------------ *)

\* cell.text: the cell's paragraph texts joined by a line break.
CellText(cell) == join("\n", [i \in 1..Len(cell) |-> cell[i].text])

\* para.text.strip() is non-empty
HasText(p) == strip(p.text) # <<>>

IsTOCStyle(name) == name \in {"TOC 1", "TOC 2", "TOC 3", "TOC Heading"}

\* 'TOC' in p._element.xml: the style id (TOC1..), a field code or the text.
XmlHasTOC(p) == IsTOCStyle(p.style) \/ p.field \/ In(<<"TOC">>, p.text)

(* ------------------------------------------------------------------ *)
(* TableRuleEngine                                                    *)
(* ------------------------------------------------------------------ *)

reference_list_headers ==
  { <<"publication", " ", "number">>, <<"priority", " ", "date">>,
    <<"filing", " ", "date">>, <<"inventor(s)">>, <<"assignee(s)">> }

legend_keywords ==
  { <<"supported:">>, <<"inferentially", " ", "supported:">>,
    <<"partially", " ", "supported:">>, <<"not", " ", "supported:">> }

\* [cell.text.lower().strip() for cell in table.rows[0].cells] if table.rows else []
HeaderCells(rows) ==
  IF rows = <<>> THEN <<>>
  ELSE [c \in 1..Len(rows[1]) |-> strip(lower(CellText(rows[1][c])))]

\* The config the source comment above the rule describes (body left aligned);
\* the code's dictionary is ConfigReference.
ConfigReference_LeftBody ==
  [type |-> "Reference List", header_align |-> "CENTER", body_align |-> "LEFT",
   legend_formatting |-> FALSE]

ConfigReference ==
  [type |-> "Reference List", header_align |-> "CENTER", body_align |-> "CENTER",
   legend_formatting |-> FALSE]
\* The legend config without its special_rules entry.
ConfigLegend_NoSpecialRules ==
  [type |-> "Legend Table", header_align |-> "CENTER", body_align |-> "JUSTIFY",
   legend_formatting |-> FALSE]

ConfigLegend ==
  [type |-> "Legend Table", header_align |-> "CENTER", body_align |-> "JUSTIFY",
   legend_formatting |-> TRUE]
ConfigClaimChart ==
  [type |-> "Claim Chart", header_align |-> "CENTER", body_align |-> "JUSTIFY",
   legend_formatting |-> FALSE]
ConfigStandard ==
  [type |-> "Standard Table", header_align |-> "CENTER", body_align |-> "JUSTIFY",
   legend_formatting |-> FALSE]

IsReferenceList(rows) ==
  \E h \in reference_list_headers : In(h, join(" ", HeaderCells(rows)))

IsLegend(rows) ==
  \E c \in 1..Len(HeaderCells(rows)) :
     \E keyword \in legend_keywords : In(keyword, HeaderCells(rows)[c])

IsClaimChart(rows) == In(<<"claim", " ", "element">>, join(" ", HeaderCells(rows)))

\* The rules in another order: the legend rule before the reference rule.
get_table_config_LegendFirst(rows, preceding_paragraph_text) ==
  IF IsLegend(rows) THEN ConfigLegend
  ELSE IF IsReferenceList(rows) THEN ConfigReference
  ELSE IF IsClaimChart(rows) THEN ConfigClaimChart
  ELSE ConfigStandard

\* A rule engine that reads more than row 0: the legend rule over every row.
get_table_config_AllRows(rows, preceding_paragraph_text) ==
  IF IsReferenceList(rows) THEN ConfigReference
  ELSE IF \E r \in 1..Len(rows) : \E c \in 1..Len(rows[r]) :
            \E keyword \in legend_keywords :
               In(keyword, strip(lower(CellText(rows[r][c]))))
       THEN ConfigLegend
  ELSE IF IsClaimChart(rows) THEN ConfigClaimChart
  ELSE ConfigStandard

get_table_config(rows, preceding_paragraph_text) ==
  IF IsReferenceList(rows) THEN ConfigReference
  ELSE IF IsLegend(rows) THEN ConfigLegend
  ELSE IF IsClaimChart(rows) THEN ConfigClaimChart
  ELSE ConfigStandard

(* ------------------------------------------------------------------ *)
(* The document                                                       *)
(* ------------------------------------------------------------------ *)

NoPara ==
  [style |-> "Normal", alignment |-> "None", text |-> <<>>, runs |-> <<>>,
   image |-> FALSE, space_before |-> None, space_after |-> None,
   line_spacing |-> None, field |-> FALSE]

ParaBlock(p) == [kind |-> "p", para |-> p, rows |-> <<>>]
TableBlock(rows) == [kind |-> "t", para |-> NoPara, rows |-> rows]

\* The indices in body of the body-level paragraphs, in document order.
RECURSIVE ParaPositions(_, _)
ParaPositions(body, from) ==
  IF from > Len(body) THEN <<>>
  ELSE (IF body[from].kind = "p" THEN <<from>> ELSE <<>>)
         \o ParaPositions(body, from + 1)

\* doc.paragraphs: body-level paragraphs only (cell paragraphs are not in it).
paragraphs(doc) ==
  LET pos == ParaPositions(doc.body, 1)
  IN  [i \in 1..Len(pos) |-> doc.body[pos[i]].para]

\* doc.tables: the body positions of the tables.
RECURSIVE TablePositions(_, _)
TablePositions(body, from) ==
  IF from > Len(body) THEN <<>>
  ELSE (IF body[from].kind = "t" THEN <<from>> ELSE <<>>)
         \o TablePositions(body, from + 1)

\* doc.paragraphs[i].<attribute> = ... : the i-th paragraph replaced by q.
SetParagraph(doc, i, q) ==
  LET pos == ParaPositions(doc.body, 1)
  IN  [doc EXCEPT !.body[pos[i]].para = q]

PropNames == {"title", "subject", "keywords", "category", "comments"}

\* os.path.basename: what follows the last "/".
RECURSIVE basename(_)
basename(path) ==
  IF \E i \in 1..Len(path) : path[i] = "/"
  THEN basename(Tail(path)) ELSE path

IsExt(t) == t \in {".docx", ".DOCX", ".doc"}

\* os.path.splitext(name)[0]: the name without its last extension.
splitext0(name) ==
  IF Len(name) > 1 /\ IsExt(name[Len(name)])
  THEN SubSeq(name, 1, Len(name) - 1) ELSE name

base_name(file) == splitext0(basename(file))

(* ------------------------------------------------------------------ *)
(* DocxFormatChecker: the checks. An issue is [type, paragraph];      *)
(* paragraph is 1-based, 0 when the issue has no 'paragraph' key.     *)
(* ------------------------------------------------------------------ *)

Issue(type, i) == [type |-> type, paragraph |-> i]

RECURSIVE Concat(_)
Concat(ss) == IF ss = <<>> THEN <<>> ELSE Head(ss) \o Concat(Tail(ss))

check_font_exceptions == {"Segoe UI", "Wingdings", "Wingdings 2"}

BodyFontWrong(run) == run.name \notin check_font_exceptions /\ run.name # "Calibri"

check_body_text_at(p, i) ==
  IF p.style = "Normal" /\ HasText(p)
  THEN (IF ~p.image /\ p.alignment # "JUSTIFY"
        THEN <<Issue("body_alignment", i)>> ELSE <<>>)
       \o (IF \E r \in 1..Len(p.runs) : BodyFontWrong(p.runs[r])
           THEN <<Issue("body_font", i)>> ELSE <<>>)
  ELSE <<>>

check_body_text(doc) ==
  LET ps == paragraphs(doc)
  IN  Concat([i \in 1..Len(ps) |-> check_body_text_at(ps[i], i)])

HeadingSpecs == {"Heading 1", "Heading 2", "Heading 3"}

HeadingSize(style) ==
  CASE style = "Heading 1" -> 28
    [] style = "Heading 2" -> 20
    [] style = "Heading 3" -> 14
    [] OTHER -> None

check_headings_at(p, i) ==
  IF p.style \in HeadingSpecs
  THEN (IF p.alignment # "LEFT" THEN <<Issue("heading_format", i)>> ELSE <<>>)
       \o (IF \E r \in 1..Len(p.runs) :
                 p.runs[r].name # "Cambria" \/ p.runs[r].size # HeadingSize(p.style)
           THEN <<Issue("heading_format", i)>> ELSE <<>>)
  ELSE <<>>

check_headings(doc) ==
  LET ps == paragraphs(doc)
  IN  Concat([i \in 1..Len(ps) |-> check_headings_at(ps[i], i)])

check_tables(doc) ==
  IF TablePositions(doc.body, 1) = <<>> THEN <<>>
  ELSE <<Issue("fix_all_tables", 0)>>

check_images(doc) ==
  LET ps == paragraphs(doc)
  IN  Concat([i \in 1..Len(ps) |->
                IF ps[i].image /\ ps[i].alignment # "CENTER"
                THEN <<Issue("image_alignment", i)>> ELSE <<>>])

\* in_h1_content before paragraph i is examined.
RECURSIVE in_h1_before(_, _)
in_h1_before(ps, i) ==
  IF i = 1 THEN FALSE
  ELSE IF ps[i - 1].style = "Heading 1" THEN TRUE
  ELSE IF ps[i - 1].style \in {"Heading 2", "Heading 3"} THEN FALSE
  ELSE in_h1_before(ps, i - 1)

\* in_h1_content when the spacing test of paragraph i is reached.
in_h1_content(ps, i) ==
  IF ps[i].style \in {"Heading 2", "Heading 3"} THEN FALSE ELSE in_h1_before(ps, i)

\* abs(pf.line_spacing - 1.33) > 0.01, line_spacing held in 240ths
LineSpacingOff(ls) ==
  LET d == 100 * ls - 133 * 240 IN (IF d < 0 THEN -d ELSE d) > 240

SpacingWrong(p) ==
  \/ p.space_before # 6
  \/ p.space_after # 6
  \/ (p.line_spacing # None /\ LineSpacingOff(p.line_spacing))

check_line_spacing(doc) ==
  LET ps == paragraphs(doc)
  IN  Concat([i \in 1..Len(ps) |->
                IF /\ ps[i].style # "Heading 1"
                   /\ in_h1_content(ps, i)
                   /\ HasText(ps[i])
                   /\ SpacingWrong(ps[i])
                THEN <<Issue("line_spacing", i)>> ELSE <<>>])

\* A check that reports only when all five properties differ.
check_document_properties_AllDiffer(doc, file) ==
  IF \A n \in PropNames : doc.props[n] # base_name(file)
  THEN <<Issue("doc_properties", 0)>> ELSE <<>>

check_document_properties(doc, file) ==
  IF \E n \in PropNames : doc.props[n] # base_name(file)
  THEN <<Issue("doc_properties", 0)>> ELSE <<>>

TocPresent(doc) ==
  LET ps == paragraphs(doc) IN \E i \in 1..Len(ps) : XmlHasTOC(ps[i])

check_toc(doc) == IF ~TocPresent(doc) THEN <<Issue("toc_missing", 0)>> ELSE <<>>

check_toc_font(doc) ==
  LET ps == paragraphs(doc)
  IN  IF /\ TocPresent(doc)
         /\ \E i \in 1..Len(ps) :
               /\ IsTOCStyle(ps[i].style)
               /\ \E r \in 1..Len(ps[i].runs) :
                     ps[i].runs[r].name # "Calibri" \/ ps[i].runs[r].size # 11
      THEN <<Issue("toc_font", 0)>> ELSE <<>>

\* The issue list check_format builds, in the order of its eight checks.
all_checks(doc, file) ==
  check_body_text(doc) \o check_headings(doc) \o check_tables(doc)
    \o check_images(doc) \o check_line_spacing(doc)
    \o check_document_properties(doc, file) \o check_toc(doc) \o check_toc_font(doc)

(* ------------------------------------------------------------------ *)
(* The fixers. A fixer returns [doc, ok]; ok = FALSE is an exception   *)
(* raised inside it.                                                  *)
(* ------------------------------------------------------------------ *)

fix_font_exceptions == {"Wingdings", "Wingdings 2"}

\* for run in p.runs: if run.font.name not in font_exceptions: Segoe UI, Pt(10)
FixBodyRuns(runs) ==
  [r \in 1..Len(runs) |->
     IF runs[r].name \notin fix_font_exceptions
     THEN [name |-> "Segoe UI", size |-> 10] ELSE runs[r]]

\* for run in p.runs: Cambria; the size only if the style has one
FixHeadingRuns(runs, size) ==
  [r \in 1..Len(runs) |->
     [name |-> "Cambria", size |-> IF size # None THEN size ELSE runs[r].size]]

TocTitlePara ==
  [NoPara EXCEPT !.text = <<"Table", " ", "of", " ", "Contents">>,
                 !.runs = <<[name |-> "None", size |-> None]>>]

TocFieldPara ==
  [NoPara EXCEPT !.runs = <<[name |-> "None", size |-> None]>>, !.field = TRUE]

\* The title goes before paragraph 0, then the field paragraph before the title.
add_toc_to_document(doc) ==
  LET pos == ParaPositions(doc.body, 1)
  IN  IF pos = <<>> THEN [doc |-> doc, ok |-> FALSE, calls |-> {}]
      ELSE [doc |-> [doc EXCEPT !.body =
                       SubSeq(doc.body, 1, pos[1] - 1)
                         \o <<ParaBlock(TocFieldPara), ParaBlock(TocTitlePara)>>
                         \o SubSeq(doc.body, pos[1], Len(doc.body))],
            ok |-> TRUE, calls |-> {}]

format_toc_font(doc) ==
  [doc EXCEPT !.body =
     [b \in 1..Len(doc.body) |->
        IF doc.body[b].kind = "p" /\ IsTOCStyle(doc.body[b].para.style)
        THEN [doc.body[b] EXCEPT !.para.runs =
                [r \in 1..Len(doc.body[b].para.runs) |->
                   [name |-> "Calibri", size |-> 11]]]
        ELSE doc.body[b]]]

\* The text of the element right before the table at body position b, if a paragraph.
get_paragraph_before(doc, b) ==
  IF b > 1 /\ doc.body[b - 1].kind = "p" THEN doc.body[b - 1].para.text ELSE <<>>

symbols == { <<"CHECKMARK">>, <<"BALLOT_X">>, <<"P">>, <<"-">> }

CellAlignment(config, r_idx, c_idx, p) ==
  IF r_idx = 1 THEN config.header_align
  ELSE IF config.legend_formatting
       THEN (IF c_idx = 1 THEN "CENTER" ELSE "JUSTIFY")
  ELSE IF config.type = "Claim Chart"
       THEN (IF c_idx = 1 \/ strip(p.text) \in symbols THEN "CENTER" ELSE "JUSTIFY")
  ELSE config.body_align

format_table(rows, preceding_text) ==
  LET config == get_table_config(rows, preceding_text)
  IN  [r \in 1..Len(rows) |->
        [c \in 1..Len(rows[r]) |->
          [k \in 1..Len(rows[r][c]) |->
            [rows[r][c][k] EXCEPT
               !.alignment = CellAlignment(config, r, c, rows[r][c][k]),
               !.runs = FixBodyRuns(rows[r][c][k].runs)]]]]

format_all_tables(doc) ==
  [doc EXCEPT !.body =
     [b \in 1..Len(doc.body) |->
        IF doc.body[b].kind = "t"
        THEN [doc.body[b] EXCEPT
                !.rows = format_table(doc.body[b].rows, get_paragraph_before(doc, b))]
        ELSE doc.body[b]]]

\* The calls of get_table_config that format_all_tables makes: the table as
\* passed, the preceding text and the config returned.
table_calls(doc) ==
  { [rows |-> doc.body[b].rows,
     preceding |-> get_paragraph_before(doc, b),
     config |-> get_table_config(doc.body[b].rows, get_paragraph_before(doc, b))] :
      b \in {x \in 1..Len(doc.body) : doc.body[x].kind = "t"} }

fix_issue(doc, issue, file) ==
  LET ps == paragraphs(doc)
      i  == issue.paragraph
      t  == issue.type
      Ok(d) == [doc |-> d, ok |-> TRUE, calls |-> {}]
  IN  IF t \in {"body_alignment", "body_font", "heading_format",
                "image_alignment", "line_spacing"} /\ i > Len(ps)
      THEN [doc |-> doc, ok |-> FALSE, calls |-> {}]
      ELSE CASE t = "body_alignment" ->
                  Ok(SetParagraph(doc, i, [ps[i] EXCEPT !.alignment = "JUSTIFY"]))
             [] t = "body_font" ->
                  Ok(SetParagraph(doc, i, [ps[i] EXCEPT !.runs = FixBodyRuns(@)]))
             [] t = "heading_format" ->
                  Ok(SetParagraph(doc, i,
                       [ps[i] EXCEPT !.alignment = "LEFT",
                                     !.runs = FixHeadingRuns(@, HeadingSize(ps[i].style))]))
             [] t = "image_alignment" ->
                  Ok(SetParagraph(doc, i, [ps[i] EXCEPT !.alignment = "CENTER"]))
             [] t = "line_spacing" ->
                  Ok(SetParagraph(doc, i,
                       [ps[i] EXCEPT !.space_before = 6, !.space_after = 6,
                                     !.line_spacing = 319]))
             [] t = "doc_properties" ->
                  Ok([doc EXCEPT !.props = [n \in PropNames |-> base_name(file)]])
             [] t = "toc_missing" -> add_toc_to_document(doc)
             [] t = "toc_font" -> Ok(format_toc_font(doc))
             [] t = "fix_all_tables" ->
                  [doc |-> format_all_tables(doc), ok |-> TRUE,
                   calls |-> table_calls(doc)]
             [] OTHER -> Ok(doc)

\* The loop of apply_fixes over self.issues with its applied_fixes set; it stops
\* at the first fixer that raises. calls collects the get_table_config calls made.
RECURSIVE FixLoop(_, _, _, _, _)
FixLoop(doc, issues, applied_fixes, file, calls) ==
  IF issues = <<>> THEN [doc |-> doc, ok |-> TRUE, calls |-> calls]
  ELSE LET issue == Head(issues)
       IN  IF issue.type \notin applied_fixes \/ issue.paragraph # 0
           THEN LET r == fix_issue(doc, issue, file)
                IN  IF ~r.ok THEN [r EXCEPT !.calls = calls]
                    ELSE FixLoop(r.doc, Tail(issues),
                                 IF issue.paragraph = 0
                                 THEN applied_fixes \cup {issue.type}
                                 ELSE applied_fixes,
                                 file, calls \cup r.calls)
           ELSE FixLoop(doc, Tail(issues), applied_fixes, file, calls)

(* ------------------------------------------------------------------ *)
(* State                                                              *)
(* ------------------------------------------------------------------ *)

VARIABLES
  fs,            \* the files on disk: path -> document
  current_file,  \* self.current_file (NoFile: None)
  doc,           \* self.doc (NoDoc: None)
  issues,        \* self.issues
  clock,         \* datetime.now(), in seconds
  msg,           \* the last message box shown
  passes,        \* history: fix passes run since the last completed check
  loaded,        \* history: the file and the document the last check loaded
  configs        \* history: the get_table_config calls made so far

\* The other programs of the repository; each runs on its own and is idle
\* (<<>>) while another one is looked at.
VARIABLES
  formatter_ui,   \* app.py: the DocxFormatterApp window and its threads
  translator_ui,  \* backup.py / superback.py: the App window and its threads
  oneshot,        \* doc_format_checker.py: a process_document call
  server,         \* server.py: the POST /translate/ requests in flight
  chrome,         \* launch_chrome_if_needed: a call and the browser processes
  pipeline,       \* backup.py: a translate_pdf call and its run directory
  extract         \* superback.py: an extract_pages call

checker_vars == <<fs, current_file, doc, issues, clock, msg, passes, loaded, configs>>

other_vars == <<formatter_ui, translator_ui, oneshot, server, chrome, pipeline, extract>>

vars == <<fs, current_file, doc, issues, clock, msg, passes, loaded, configs,
          formatter_ui, translator_ui, oneshot, server, chrome, pipeline, extract>>

OthersIdle ==
  /\ formatter_ui = <<>>
  /\ translator_ui = <<>>
  /\ oneshot = <<>>
  /\ server = <<>>
  /\ chrome = <<>>
  /\ pipeline = <<>>
  /\ extract = <<>>

NoFile == <<>>

NoDoc == [body |-> <<>>, props |-> [n \in PropNames |-> <<>>], ok |-> FALSE]

\* The directory part of a path: up to and including the last "/".
RECURSIVE dirname(_)
dirname(path) ==
  IF path = <<>> \/ path[Len(path)] = "/" THEN path
  ELSE dirname(SubSeq(path, 1, Len(path) - 1))

\* open(path, 'wb') succeeds: the directory exists.
CanSave(files, path) ==
  dirname(path) = <<>> \/ \E f \in DOMAIN files : dirname(f) = dirname(path)

\* doc.save(path)
save(files, path, d) ==
  [f \in DOMAIN files \cup {path} |-> IF f = path THEN d ELSE files[f]]

\* How many times a file name was derived by apply_fixes from another one.
Derived(path) == Cardinality({i \in 1..Len(path) : path[i] \in {"_fixed", "_backup_"}})

backup_path(file, now) ==
  replace(file, ".docx", <<"_backup_", ToString(now), ".docx">>)

fixed_path(file) == replace(file, ".docx", <<"_fixed", ".docx">>)

(* ------------------------------------------------------------------ *)
(* Actions: the three buttons, and time passing                       *)
(* ------------------------------------------------------------------ *)

\* Browse...: the dialog returns an existing file (a cancel changes nothing).
browse_file(filename) ==
  /\ filename \in DOMAIN fs
  /\ Derived(filename) <= MaxDerived
  /\ current_file' = filename
  /\ UNCHANGED <<fs, doc, issues, clock, msg, passes, loaded, configs>>

\* A check pass that would correct what it finds in the loaded document.
check_format_Fixing ==
  IF current_file = NoFile
  THEN /\ msg' = "No File"
       /\ UNCHANGED <<fs, current_file, doc, issues, clock, passes, loaded, configs>>
  ELSE IF current_file \notin DOMAIN fs \/ ~fs[current_file].ok
  THEN /\ issues' = <<>>
       /\ msg' = "Error"
       /\ UNCHANGED <<fs, current_file, doc, clock, passes, loaded, configs>>
  ELSE /\ doc' = FixLoop(fs[current_file], all_checks(fs[current_file], current_file),
                         {}, current_file, {}).doc
       /\ issues' = all_checks(fs[current_file], current_file)
       /\ msg' = "Check complete."
       /\ passes' = 0
       /\ loaded' = [file |-> current_file, doc |-> fs[current_file]]
       /\ UNCHANGED <<fs, current_file, clock, configs>>

\* 1. Check Document
check_format ==
  IF current_file = NoFile
  THEN /\ msg' = "No File"
       /\ UNCHANGED <<fs, current_file, doc, issues, clock, passes, loaded, configs>>
  ELSE IF current_file \notin DOMAIN fs \/ ~fs[current_file].ok
  THEN \* Document() raises, after self.issues = []
       /\ issues' = <<>>
       /\ msg' = "Error"
       /\ UNCHANGED <<fs, current_file, doc, clock, passes, loaded, configs>>
  ELSE /\ doc' = fs[current_file]
       /\ issues' = all_checks(fs[current_file], current_file)
       /\ msg' = "Check complete."
       /\ passes' = 0
       /\ loaded' = [file |-> current_file, doc |-> fs[current_file]]
       /\ UNCHANGED <<fs, current_file, clock, configs>>

\* 2. Apply All Fixes
apply_fixes ==
  LET backup_file == backup_path(current_file, clock)
      fixed_file  == fixed_path(current_file)
      fs1         == save(fs, backup_file, doc)
      res         == FixLoop(doc, issues, {}, current_file, {})
  IN  IF issues = <<>>
      THEN /\ msg' = "No Issues"
           /\ UNCHANGED <<fs, current_file, doc, issues, clock, passes, loaded, configs>>
      ELSE /\ passes < MaxPasses
           /\ passes' = passes + 1
           /\ UNCHANGED <<current_file, issues, clock, loaded>>
           /\ IF ~CanSave(fs, backup_file)
              THEN /\ msg' = "Error Applying Fixes"
                   /\ UNCHANGED <<fs, doc, configs>>
              ELSE IF ~res.ok \/ ~CanSave(fs1, fixed_file)
              THEN /\ fs' = fs1
                   /\ doc' = res.doc
                   /\ configs' = configs \cup res.calls
                   /\ msg' = "Error Applying Fixes"
              ELSE /\ fs' = save(fs1, fixed_file, res.doc)
                   /\ doc' = res.doc
                   /\ configs' = configs \cup res.calls
                   /\ msg' = "Success"

\* A second passes.
Tick ==
  /\ clock < MaxClock
  /\ clock' = clock + 1
  /\ UNCHANGED <<fs, current_file, doc, issues, msg, passes, loaded, configs>>

Next ==
  \/ \E filename \in DOMAIN fs : browse_file(filename) /\ UNCHANGED other_vars
  \/ check_format /\ UNCHANGED other_vars
  \/ apply_fixes /\ UNCHANGED other_vars
  \/ Tick /\ UNCHANGED other_vars

(* ------------------------------------------------------------------ *)
(* The documents a run starts from                                    *)
(* ------------------------------------------------------------------ *)

Run(name, size) == [name |-> name, size |-> size]

\* Sequences over S of length lo..hi.
SeqsOf(S, lo, hi) == UNION {[1..n -> S] : n \in lo..hi}

Styles == {"Normal", "Heading 1", "Heading 2", "Heading 3", "TOC 1", "List Paragraph"}

\* An unset alignment is told from LEFT by no rule, so LEFT stands for both.
Alignments == {"LEFT", "CENTER", "JUSTIFY"}

RunSet ==
  { Run("Arial", 12), Run("Segoe UI", 10), Run("Segoe UI", 12), Run("Calibri", 11),
    Run("Cambria", 28), Run("Wingdings", 12), Run("Symbol", 12) }

\* One paragraph in every combination of style, alignment, content and runs; a
\* paragraph without runs has neither text nor a drawing.
RichParas ==
  { [NoPara EXCEPT !.style = st, !.alignment = al, !.text = tx, !.runs = rs,
                   !.image = im] :
      st \in Styles, al \in Alignments, tx \in {<<>>, <<"Item">>},
      im \in BOOLEAN, rs \in SeqsOf(RunSet, 1, MaxRuns) }
  \cup { [NoPara EXCEPT !.style = st, !.alignment = al] :
           st \in Styles, al \in Alignments }

Spacings ==
  { [sb |-> None, sa |-> None, ls |-> None],
    [sb |-> 6, sa |-> 6, ls |-> 319],
    [sb |-> 6, sa |-> 6, ls |-> None],
    [sb |-> 6, sa |-> 6, ls |-> 480] }

\* Paragraphs for the documents of several blocks: what the rules that read the
\* neighbours (the Heading-1 scope, the TOC test, the paragraph index) depend on.
PlainParas ==
  { [NoPara EXCEPT !.style = st, !.alignment = "LEFT", !.text = <<"Item">>,
                   !.runs = <<Run("Arial", 12)>>, !.space_before = sp.sb,
                   !.space_after = sp.sa, !.line_spacing = sp.ls] :
      st \in {"Normal", "Heading 1", "Heading 2", "TOC 1"}, sp \in Spacings }

CellPara(text, alignment, run, image) ==
  [NoPara EXCEPT !.text = text, !.alignment = alignment, !.runs = <<run>>,
                 !.image = image]

\* A table no rule matches, with a drawing in a body cell.
PlainTable ==
  << << <<CellPara(<<"Item">>, "LEFT", Run("Arial", 12), FALSE)>>,
        <<CellPara(<<"Number">>, "LEFT", Run("Arial", 12), FALSE)>> >>,
     << <<CellPara(<<"x">>, "LEFT", Run("Wingdings", 12), FALSE)>>,
        <<CellPara(<<>>, "LEFT", Run("Symbol", 12), TRUE)>> >> >>

R_DOCX == <<"r", ".docx">>

StaleProps == [n \in PropNames |-> <<"old">>]
PropsOf(file) == [n \in PropNames |-> base_name(file)]

Doc(body, props) == [body |-> body, props |-> props, ok |-> TRUE]

MainDocs ==
  { Doc(<<ParaBlock(p)>>, StaleProps) : p \in RichParas }
  \cup { Doc(body, PropsOf(R_DOCX)) :
           body \in SeqsOf({ParaBlock(p) : p \in PlainParas} \cup {TableBlock(PlainTable)},
                           0, MaxBlocks) }

InitWith(file, d) ==
  /\ fs = (file :> d)
  /\ current_file = NoFile
  /\ doc = NoDoc
  /\ issues = <<>>
  /\ clock = 0
  /\ msg = "Ready"
  /\ passes = 0
  /\ loaded = [file |-> NoFile, doc |-> NoDoc]
  /\ configs = {}
  /\ OthersIdle

Init == \E d \in MainDocs : InitWith(R_DOCX, d)

Spec == Init /\ [][Next]_vars

(* ------------------------------------------------------------------ *)
(* Documents with one table: every header of one or two cells over     *)
(* HeaderTexts, and the five-column reference header, over body rows   *)
(* whose first cell and whose other cells range over BodyCells.        *)
(* ------------------------------------------------------------------ *)

HeaderTexts ==
  { <<"Publication", " ", "Number">>, <<"Publication">>, <<"Number">>,
    <<" ", "Filing", " ", "Date", " ">>, <<"Claim", " ", "Element">>,
    <<"Supported:">>, <<"Not", " ", "Supported:">>, <<"Item">> }

ReferenceHeader ==
  << <<"Publication", " ", "Number">>, <<"Priority", " ", "Date">>,
     <<"Filing", " ", "Date">>, <<"Inventor(s)">>, <<"Assignee(s)">> >>

HeaderCell(text) == <<CellPara(text, "LEFT", Run("Arial", 12), FALSE)>>

HeaderRows ==
  { [c \in 1..Len(h) |-> HeaderCell(h[c])] :
      h \in SeqsOf(HeaderTexts, 1, 2) \cup {ReferenceHeader} }
  \cup { << <<CellPara(<<"Claim">>, "LEFT", Run("Arial", 12), FALSE),
              CellPara(<<"Element">>, "LEFT", Run("Arial", 12), FALSE)>>,
            HeaderCell(<<"Support">>) >> }

BodyCells ==
  { <<CellPara(<<"x">>, "LEFT", Run("Arial", 12), FALSE)>>,
    <<CellPara(<<"CHECKMARK">>, "LEFT", Run("Wingdings", 12), FALSE)>>,
    <<CellPara(<<" ", "P", " ">>, "CENTER", Run("Segoe UI", 10), FALSE)>>,
    <<CellPara(<<"Supported:">>, "JUSTIFY", Run("Symbol", 12), FALSE)>>,
    <<CellPara(<<>>, "LEFT", Run("Calibri", 11), TRUE)>>,
    <<CellPara(<<"-">>, "LEFT", Run("Arial", 12), FALSE),
      CellPara(<<"x">>, "LEFT", Run("Arial", 12), FALSE)>> }

\* A row of the given width: first in column 0, rest in every other column.
BodyRow(first, rest, width) == [c \in 1..width |-> IF c = 1 THEN first ELSE rest]

TableSet ==
  { <<h>> \o [r \in 1..Len(b) |-> BodyRow(b[r][1], b[r][2], Len(h))] :
      h \in HeaderRows, b \in SeqsOf(BodyCells \X BodyCells, 0, MaxBodyRows) }
  \cup { <<>> }

LeadPara(text) ==
  [NoPara EXCEPT !.alignment = "JUSTIFY", !.text = text,
                 !.runs = <<Run("Segoe UI", 10)>>]

TableDocs ==
  { Doc(lead \o <<TableBlock(t)>>, PropsOf(R_DOCX)) :
      t \in TableSet,
      lead \in { <<>>, <<ParaBlock(LeadPara(<<"Claim", " ", "Element">>))>> } }

\* Two tables in one document, each after the same paragraph, over one-column
\* tables.
NarrowTables ==
  { << <<HeaderCell(h)>> >> \o [r \in 1..Len(b) |-> <<b[r]>>] :
      h \in {<<"Item">>, <<"Claim", " ", "Element">>},
      b \in SeqsOf(BodyCells, 0, MaxBodyRows) }

TwoTableDocs ==
  { Doc(<<ParaBlock(LeadPara(<<"Item">>)), TableBlock(t1),
          ParaBlock(LeadPara(<<"Item">>)), TableBlock(t2)>>,
        PropsOf(R_DOCX)) : t1 \in NarrowTables, t2 \in NarrowTables }

InitTables == \E d \in TableDocs \cup TwoTableDocs : InitWith(R_DOCX, d)

SpecTables == InitTables /\ [][Next]_vars

(* ------------------------------------------------------------------ *)
(* One file under each name the file dialog can return: the filter    *)
(* *.docx is matched without regard to case where the tool runs, and  *)
(* a folder name may hold ".docx" too.                                *)
(* ------------------------------------------------------------------ *)

PathSet ==
  { R_DOCX, <<"R", ".DOCX">>, <<"v1", ".docx", "/", "r", ".docx">> }

\* Properties of which only the title differs from the base name of r.docx.
TitleStaleProps == [PropsOf(R_DOCX) EXCEPT !["title"] = <<"old">>]

FileDocs ==
  { Doc(<<ParaBlock(p)>>, pr) :
      p \in { q \in RichParas : Len(q.runs) = 1 /\ q.text # <<>> /\ ~q.image },
      pr \in {StaleProps, PropsOf(R_DOCX), TitleStaleProps} }

InitFiles == \E file \in PathSet, d \in FileDocs : InitWith(file, d)

SpecFiles == InitFiles /\ [][Next]_vars

(* ------------------------------------------------------------------ *)
(* Two files in one folder: r.docx, and b.docx which Document() cannot *)
(* open (not a .docx package inside).                                 *)
(* ------------------------------------------------------------------ *)

B_DOCX == <<"b", ".docx">>

Unreadable == [body |-> <<>>, props |-> StaleProps, ok |-> FALSE]

TwoFileDocs ==
  { d \in FileDocs :
      /\ d.body[1].para.style \in {"Normal", "Heading 1"}
      /\ d.body[1].para.alignment \in {"LEFT", "JUSTIFY"}
      /\ d.body[1].para.runs[1] \in {Run("Arial", 12), Run("Segoe UI", 10)} }

InitTwoFiles ==
  \E d \in TwoFileDocs :
     /\ fs = (R_DOCX :> d) @@ (B_DOCX :> Unreadable)
     /\ current_file = NoFile
     /\ doc = NoDoc
     /\ issues = <<>>
     /\ clock = 0
     /\ msg = "Ready"
     /\ passes = 0
     /\ loaded = [file |-> NoFile, doc |-> NoDoc]
     /\ configs = {}
     /\ OthersIdle

SpecTwoFiles == InitTwoFiles /\ [][Next]_vars

(* ------------------------------------------------------------------ *)
(* Properties                                                         *)
(* ------------------------------------------------------------------ *)

\* check_format, then apply_fixes once, ended with the Success box: doc is the
\* fixed document and loaded.doc the document as it was checked.
FixedOnce == passes = 1 /\ msg = "Success"

\* The fix pass inserts its TOC placeholder before paragraph 0: paragraph i of
\* the checked document is paragraph i + Shift of the fixed one.
Shift == Len(paragraphs(doc)) - Len(paragraphs(loaded.doc))

ProtectedFonts == {"Wingdings", "Wingdings 2", "Symbol"}

\* Every paragraph of a document: the body-level ones and those in table cells.
CellParas(d) ==
  { d.body[b].rows[r][c][k] :
      <<b, r, c, k>> \in
        { q \in (1..Len(d.body)) \X (1..(MaxBodyRows + 2)) \X (1..5) \X (1..2) :
            /\ d.body[q[1]].kind = "t"
            /\ q[2] <= Len(d.body[q[1]].rows)
            /\ q[3] <= Len(d.body[q[1]].rows[q[2]])
            /\ q[4] <= Len(d.body[q[1]].rows[q[2]][q[3]]) } }

\* C1: a check of the document a check-then-fix produced records no issue other
\* than the unconditional fix_all_tables.
C1_Idempotent ==
  FixedOnce =>
    \A k \in 1..Len(all_checks(doc, loaded.file)) :
       all_checks(doc, loaded.file)[k].type = "fix_all_tables"

\* C2: after check-then-fix every Heading 1/2/3 paragraph is LEFT with every run
\* Cambria at 28/20/14 pt.
C2_HeadingsFixed ==
  FixedOnce =>
    \A i \in 1..Len(paragraphs(doc)) :
       LET p == paragraphs(doc)[i]
       IN  p.style \in HeadingSpecs =>
             /\ p.alignment = "LEFT"
             /\ \A r \in 1..Len(p.runs) : p.runs[r] = Run("Cambria", HeadingSize(p.style))

\* C3: after check-then-fix every body paragraph without a drawing is JUSTIFY and
\* each of its runs whose font was not protected is Segoe UI 10 pt. Stated for
\* the paragraphs the body check looks at: style Normal, with text.
C3_BodyFixed ==
  FixedOnce =>
    \A i \in 1..Len(paragraphs(loaded.doc)) :
       LET before == paragraphs(loaded.doc)[i]
           after  == paragraphs(doc)[i + Shift]
       IN  (before.style = "Normal" /\ HasText(before) /\ ~before.image) =>
             /\ after.alignment = "JUSTIFY"
             /\ \A r \in 1..Len(before.runs) :
                   before.runs[r].name \notin ProtectedFonts
                     => after.runs[r] = Run("Segoe UI", 10)

\* C4: after check-then-fix every paragraph that holds a drawing is CENTER, at
\* body level and in table cells. Stated for the paragraphs no heading rule
\* claims: those whose style is not Heading 1/2/3.
C4_ImagesCentered ==
  FixedOnce =>
    /\ \A i \in 1..Len(paragraphs(doc)) :
          LET p == paragraphs(doc)[i]
          IN  (p.image /\ p.style \notin HeadingSpecs) => p.alignment = "CENTER"
    /\ \A p \in CellParas(doc) : p.image => p.alignment = "CENTER"

\* C5: outside tables a Wingdings, Wingdings 2 or Symbol run is never the cause
\* of a body font issue and keeps its font name and size through the fix.
C5_ProtectedKept ==
  /\ (msg = "Check complete." /\ passes = 0) =>
        \A i \in 1..Len(paragraphs(doc)) :
           (\A r \in 1..Len(paragraphs(doc)[i].runs) :
               paragraphs(doc)[i].runs[r].name \in ProtectedFonts)
             => \A k \in 1..Len(issues) : issues[k] # Issue("body_font", i)
  /\ FixedOnce =>
        \A i \in 1..Len(paragraphs(loaded.doc)) :
           \A r \in 1..Len(paragraphs(loaded.doc)[i].runs) :
              paragraphs(loaded.doc)[i].runs[r].name \in ProtectedFonts
                => paragraphs(doc)[i + Shift].runs[r] = paragraphs(loaded.doc)[i].runs[r]

\* C6: the backup path and the _fixed path of a fix pass differ from the input
\* path and from each other, so the input file still holds what was loaded.
C6_NewPaths ==
  (passes >= 1 /\ current_file = loaded.file) =>
    /\ backup_path(current_file, clock) # current_file
    /\ fixed_path(current_file) # current_file
    /\ backup_path(current_file, clock) # fixed_path(current_file)
    /\ fs[current_file] = loaded.doc

\* C7: every backup file holds the document as it is in the input file, also
\* after repeated fix passes on the same file.
C7_BackupIsOriginal ==
  \A f \in DOMAIN fs : \A t \in 0..MaxClock :
     (Derived(f) = 0 /\ backup_path(f, t) # f /\ backup_path(f, t) \in DOMAIN fs)
       => fs[backup_path(f, t)] = fs[f]

\* The row-0 cell texts of a table, as they are in the document.
RawHeader(rows) ==
  IF rows = <<>> THEN <<>> ELSE [c \in 1..Len(rows[1]) |-> CellText(rows[1][c])]

TypeNames == {"Reference List", "Legend Table", "Claim Chart", "Standard Table"}

\* C8: every call of get_table_config returns the config of the earliest rule
\* the header satisfies, in the order Reference List, Legend Table, Claim Chart,
\* and the Standard Table config (header CENTER, body JUSTIFY) when none or no
\* row is there.
C8_FirstMatchWins ==
  \A e \in configs :
     LET ref == IsReferenceList(e.rows)
         leg == IsLegend(e.rows)
         cc  == IsClaimChart(e.rows)
     IN  /\ e.config.type \in TypeNames
         /\ ref => e.config.type = "Reference List"
         /\ (leg /\ ~ref) => e.config.type = "Legend Table"
         /\ (cc /\ ~leg /\ ~ref) => e.config.type = "Claim Chart"
         /\ (~ref /\ ~leg /\ ~cc) =>
               /\ e.config.type = "Standard Table"
               /\ e.config.header_align = "CENTER"
               /\ e.config.body_align = "JUSTIFY"
         /\ e.rows = <<>> => e.config.type = "Standard Table"

\* A call was made on a header that satisfies two rules.
C8_Witness ==
  \E e \in configs :
     /\ IsReferenceList(e.rows) /\ IsLegend(e.rows)
     /\ e.config.type = "Reference List"

TablesOf(d) == {b \in 1..Len(d.body) : d.body[b].kind = "t"}

AllCenter(rows) ==
  \A r \in 1..Len(rows) : \A c \in 1..Len(rows[r]) : \A k \in 1..Len(rows[r][c]) :
     rows[r][c][k].alignment = "CENTER"

TableRows(d) ==
  LET pos == TablePositions(d.body, 1)
  IN  [i \in 1..Len(pos) |-> d.body[pos[i]].rows]

\* A fix pass has run format_all_tables on the document in memory.
TablesFormatted == passes >= 1 /\ configs # {}

\* C11: in a table classified Claim Chart, after format_table, every paragraph
\* of a row-0 cell is CENTER; in the other rows every paragraph of a cell is
\* CENTER if the cell is in column 0 or the cell's whole trimmed text is one of
\* the symbols, and JUSTIFY otherwise (one decision per cell).
C11_ClaimChartPerCell ==
  TablesFormatted =>
    \A i \in 1..Len(TableRows(doc)) :
       LET rows == TableRows(doc)[i]
       IN  get_table_config(rows, <<>>).type = "Claim Chart" =>
             \A r \in 1..Len(rows) : \A c \in 1..Len(rows[r]) :
                \A k \in 1..Len(rows[r][c]) :
                   rows[r][c][k].alignment =
                     IF r = 1 \/ c = 1 \/ strip(CellText(rows[r][c])) \in symbols
                     THEN "CENTER" ELSE "JUSTIFY"

\* C12: in a table classified Legend Table, after format_table, every paragraph
\* of row 0 is CENTER and, in every other row, column 0 is CENTER and every
\* other column is JUSTIFY.
C12_LegendColumns ==
  TablesFormatted =>
    \A i \in 1..Len(TableRows(doc)) :
       LET rows == TableRows(doc)[i]
       IN  get_table_config(rows, <<>>).type = "Legend Table" =>
             \A r \in 1..Len(rows) : \A c \in 1..Len(rows[r]) :
                \A k \in 1..Len(rows[r][c]) :
                   rows[r][c][k].alignment =
                     IF r = 1 \/ c = 1 THEN "CENTER" ELSE "JUSTIFY"

\* A two-column legend table with a body row whose column-0 paragraph was not
\* CENTER and whose other column was not JUSTIFY has been formatted.
C12_Witness ==
  /\ TablesFormatted
  /\ \E e \in configs :
        /\ e.config.type = "Legend Table"
        /\ Len(e.rows) = 2 /\ Len(e.rows[1]) = 2
        /\ e.rows[2][1][1].alignment # "CENTER"
        /\ e.rows[2][2][1].alignment # "JUSTIFY"
        /\ \E i \in 1..Len(TableRows(doc)) :
              /\ RawHeader(TableRows(doc)[i]) = RawHeader(e.rows)
              /\ TableRows(doc)[i][2][1][1].alignment = "CENTER"
              /\ TableRows(doc)[i][2][2][1].alignment = "JUSTIFY"

\* C13: after format_table every run of every cell paragraph is Segoe UI 10 pt,
\* except the runs that were Wingdings, Wingdings 2 or Symbol, which are as they
\* were.
C13_TableFonts ==
  (TablesFormatted /\ passes = 1) =>
    \A i \in 1..Len(TableRows(doc)) :
       LET before == TableRows(loaded.doc)[i]
           after  == TableRows(doc)[i]
       IN  \A r \in 1..Len(before) : \A c \in 1..Len(before[r]) :
              \A k \in 1..Len(before[r][c]) : \A n \in 1..Len(before[r][c][k].runs) :
                 after[r][c][k].runs[n] =
                   IF before[r][c][k].runs[n].name \in ProtectedFonts
                   THEN before[r][c][k].runs[n] ELSE Run("Segoe UI", 10)

\* The filename stem of each selectable path, written out.
StemOf ==
  (R_DOCX :> <<"r">>) @@ (<<"R", ".DOCX">> :> <<"R">>)
    @@ (<<"v1", ".docx", "/", "r", ".docx">> :> <<"r">>)

HasIssue(type) == \E k \in 1..Len(issues) : issues[k].type = type

InH1Scope(ps, i) ==
  /\ ps[i].style \notin HeadingSpecs
  /\ \E j \in 1..(i - 1) :
        /\ ps[j].style = "Heading 1"
        /\ \A m \in (j + 1)..(i - 1) : ps[m].style \notin HeadingSpecs

\* C15: after check-then-fix every Normal paragraph with text inside a Heading-1
\* scope has line spacing 1.33 and 6 pt before and after, whatever its spacing
\* was, set or unset.
C15_H1ScopeSpacing ==
  FixedOnce =>
    \A i \in 1..Len(paragraphs(loaded.doc)) :
       LET ps    == paragraphs(loaded.doc)
           after == paragraphs(doc)[i + Shift]
       IN  (InH1Scope(ps, i) /\ ps[i].style = "Normal" /\ HasText(ps[i])) =>
             /\ after.space_before = 6
             /\ after.space_after = 6
             /\ after.line_spacing = 319

\* C16: after check-then-fix every run of every TOC-styled paragraph is Calibri
\* 11 pt, and the paragraph's spacing and (unless the image rule centres it)
\* alignment are as they were loaded.
C16_TocRule ==
  FixedOnce =>
    \A i \in 1..Len(paragraphs(loaded.doc)) :
       LET before == paragraphs(loaded.doc)[i]
           after  == paragraphs(doc)[i + Shift]
       IN  IsTOCStyle(before.style) =>
             /\ \A r \in 1..Len(after.runs) : after.runs[r] = Run("Calibri", 11)
             /\ ~before.image => after.alignment = before.alignment
             /\ after.space_before = before.space_before
             /\ after.space_after = before.space_after
             /\ after.line_spacing = before.line_spacing

\* C17: a step of check_format writes no file and leaves the document it loaded
\* as it is in the file: no alignment, spacing, run, cell or property differs.
\* A check that fails leaves the document in memory as it was.
C17_CheckReadOnly ==
  [][check_format =>
       /\ fs' = fs
       /\ configs' = configs
       /\ IF msg' = "Check complete." THEN doc' = fs[current_file] ELSE doc' = doc]_vars

\* A check has found issues in a document with content; the document in memory
\* is the one in the file.
C17_Witness ==
  /\ msg = "Check complete."
  /\ issues # <<>>
  /\ doc.body # <<>>
  /\ HasIssue("body_font") \/ HasIssue("heading_format") \/ HasIssue("fix_all_tables")
  /\ doc = fs[current_file]

\* C18: once apply_fixes has ended with Success, a further apply_fixes with no
\* check and no file load in between applies no fixer, writes no file and leaves
\* the document in memory as it is.
C18_FixedIsFinal ==
  [][(msg = "Success" /\ current_file = loaded.file /\ apply_fixes) =>
       /\ fs' = fs
       /\ doc' = doc
       /\ configs' = configs]_vars

\* C19: after browse_file has selected another file, apply_fixes applies no fix
\* and writes no file until check_format has run on that file.
C19_BrowseResets ==
  [][(apply_fixes /\ current_file # loaded.file) => (fs' = fs /\ doc' = doc)]_vars

\* C20: a check_format that ends with the error box leaves the document in
\* memory and the issue list as they were before the call.
C20_FailedCheckKeepsState ==
  [][(check_format /\ msg' = "Error") => (issues' = issues /\ doc' = doc)]_vars

\* C21: when a fixer raises during apply_fixes (the backup having been written),
\* the pass still ends with the Success box and the fixed file is written.
C21_FixFailureSkipped ==
  [][(/\ apply_fixes
      /\ issues # <<>>
      /\ CanSave(fs, backup_path(current_file, clock))
      /\ ~FixLoop(doc, issues, {}, current_file, {}).ok)
       => (msg' = "Success" /\ fixed_path(current_file) \in DOMAIN fs')]_vars

\* C29: whenever apply_fixes runs on an issue list with a paragraph-indexed
\* issue, the paragraph each index was recorded for is still at that index: no
\* paragraph has been inserted before it since check_format ran (Shift = 0).
C29_IssueLocationsValid ==
  [][(/\ apply_fixes
      /\ current_file = loaded.file
      /\ \E k \in 1..Len(issues) :
            issues[k].type \in {"body_alignment", "body_font", "heading_format",
                                "image_alignment", "line_spacing"})
       => Shift = 0]_vars

(* ------------------------------------------------------------------ *)
(* The windows with a background worker: app.py (DocxFormatterApp) and *)
(* the App class of backup.py and superback.py. A worker is a thread;  *)
(* the statements it runs after its work interleave with the clicks    *)
(* the main loop handles.                                             *)
(* ------------------------------------------------------------------ *)

MaxWorkers == 2

\* The checker window is not in use.
CheckerIdle ==
  /\ fs = <<>>
  /\ current_file = NoFile
  /\ doc = NoDoc
  /\ issues = <<>>
  /\ clock = 0
  /\ msg = "Ready"
  /\ passes = 0
  /\ loaded = [file |-> NoFile, doc |-> NoDoc]
  /\ configs = {}

\* The run_formatting threads alive: in process_document and its message box,
\* before the first statement of reset_ui, before the second one.
FormatterThreads ==
  formatter_ui.threads["run_formatting"]
    + formatter_ui.threads["reset_ui_format_button"]
    + formatter_ui.threads["reset_ui_select_button"]

Translators == {"backup", "superback"}

\* backup.py's worker calls self.progress.stop() in its finally clause, and App
\* has no attribute progress: the clause ends there with AttributeError.
FinallyRaises(a) == a = "backup"

InitGui ==
  /\ formatter_ui = [filepath |-> FALSE, format_button |-> "disabled",
                     select_button |-> "normal", box |-> "none",
                     threads |-> [pc \in {"run_formatting", "reset_ui_format_button",
                                          "reset_ui_select_button"} |-> 0]]
  /\ translator_ui = [a \in Translators |->
                        [in_var |-> FALSE, out_var |-> FALSE, run_btn |-> "normal",
                         box |-> "none", threads |-> 0]]
  /\ CheckerIdle
  /\ oneshot = <<>>
  /\ server = <<>>
  /\ chrome = <<>>
  /\ pipeline = <<>>
  /\ extract = <<>>

\* Select DOCX File: the dialog returns a path.
select_file ==
  /\ formatter_ui.select_button = "normal"
  /\ formatter_ui' = [formatter_ui EXCEPT !.filepath = TRUE,
                                          !.format_button = "normal"]
  /\ UNCHANGED <<translator_ui, checker_vars, oneshot, server, chrome, pipeline, extract>>

\* Format Document
start_formatting_thread ==
  /\ formatter_ui.format_button = "normal"
  /\ FormatterThreads < MaxWorkers
  /\ IF ~formatter_ui.filepath
     THEN formatter_ui' = [formatter_ui EXCEPT !.box = "Error"]
     ELSE formatter_ui' = [formatter_ui EXCEPT
                             !.format_button = "disabled",
                             !.select_button = "disabled",
                             !.threads["run_formatting"] = @ + 1]
  /\ UNCHANGED <<translator_ui, checker_vars, oneshot, server, chrome, pipeline, extract>>

\* The thread: process_document returns or raises, the message box is shown and
\* closed, and reset_ui is entered.
run_formatting(ok) ==
  /\ formatter_ui.threads["run_formatting"] > 0
  /\ formatter_ui' = [formatter_ui EXCEPT
                        !.box = IF ok THEN "Success" ELSE "Error",
                        !.threads["run_formatting"] = @ - 1,
                        !.threads["reset_ui_format_button"] = @ + 1]
  /\ UNCHANGED <<translator_ui, checker_vars, oneshot, server, chrome, pipeline, extract>>

\* reset_ui, first statement
reset_ui_format_button ==
  /\ formatter_ui.threads["reset_ui_format_button"] > 0
  /\ formatter_ui' = [formatter_ui EXCEPT
                        !.format_button = IF formatter_ui.filepath
                                          THEN "normal" ELSE "disabled",
                        !.threads["reset_ui_format_button"] = @ - 1,
                        !.threads["reset_ui_select_button"] = @ + 1]
  /\ UNCHANGED <<translator_ui, checker_vars, oneshot, server, chrome, pipeline, extract>>

\* reset_ui, second statement; the thread ends.
reset_ui_select_button ==
  /\ formatter_ui.threads["reset_ui_select_button"] > 0
  /\ formatter_ui' = [formatter_ui EXCEPT
                        !.select_button = "normal",
                        !.threads["reset_ui_select_button"] = @ - 1]
  /\ UNCHANGED <<translator_ui, checker_vars, oneshot, server, chrome, pipeline, extract>>

pick_in(a) ==
  /\ translator_ui' = [translator_ui EXCEPT ![a].in_var = TRUE]
  /\ UNCHANGED <<formatter_ui, checker_vars, oneshot, server, chrome, pipeline, extract>>

pick_out(a) ==
  /\ translator_ui' = [translator_ui EXCEPT ![a].out_var = TRUE]
  /\ UNCHANGED <<formatter_ui, checker_vars, oneshot, server, chrome, pipeline, extract>>

\* Translate PDF
start(a) ==
  /\ translator_ui[a].run_btn = "normal"
  /\ translator_ui[a].threads < MaxWorkers
  /\ IF ~translator_ui[a].in_var \/ ~translator_ui[a].out_var
     THEN translator_ui' = [translator_ui EXCEPT ![a].box = "warning"]
     ELSE translator_ui' = [translator_ui EXCEPT ![a].run_btn = "disabled",
                                                 ![a].threads = @ + 1]
  /\ UNCHANGED <<formatter_ui, checker_vars, oneshot, server, chrome, pipeline, extract>>

\* The thread of start: translate_pdf returns or raises (then the error box),
\* and the finally clause runs; the thread ends.
worker(a, ok) ==
  /\ translator_ui[a].threads > 0
  /\ translator_ui' = [translator_ui EXCEPT
                         ![a].box = IF ok THEN @ ELSE "error",
                         ![a].run_btn = IF FinallyRaises(a) THEN @ ELSE "normal",
                         ![a].threads = @ - 1]
  /\ UNCHANGED <<formatter_ui, checker_vars, oneshot, server, chrome, pipeline, extract>>

NextGui ==
  \/ select_file
  \/ start_formatting_thread
  \/ \E ok \in BOOLEAN : run_formatting(ok)
  \/ reset_ui_format_button
  \/ reset_ui_select_button
  \/ \E a \in Translators : pick_in(a)
  \/ \E a \in Translators : pick_out(a)
  \/ \E a \in Translators : start(a)
  \/ \E a \in Translators, ok \in BOOLEAN : worker(a, ok)

SpecGui == InitGui /\ [][NextGui]_vars

\* C22: in none of the three windows are two workers alive at once.
C22_OneWorker ==
  /\ FormatterThreads <= 1
  /\ \A a \in Translators : translator_ui[a].threads <= 1

\* C24: when a worker ends, with success or with an error, its trigger button is
\* enabled.
C24_ButtonEnabledAgain ==
  [][/\ (reset_ui_select_button => formatter_ui'.format_button = "normal")
     /\ \A a \in Translators :
          (\E ok \in BOOLEAN : worker(a, ok)) => translator_ui'[a].run_btn = "normal"]_vars

(* ------------------------------------------------------------------ *)
(* doc_format_checker.py: process_document, the one-shot formatter.   *)
(* The documents here have body-level paragraphs only (no table, no   *)
(* header with a [DATE] placeholder), so doc.paragraphs is the body.  *)
(* ------------------------------------------------------------------ *)

\* style_name.startswith('Heading'), over Styles
StartsWithHeading(style) == style \in {"Heading 1", "Heading 2", "Heading 3"}

\* The loop of format_paragraphs_and_headings from paragraph i on;
\* in_h1 is in_heading_1_section before paragraph i.
RECURSIVE format_paragraphs_and_headings(_, _, _)
format_paragraphs_and_headings(ps, i, in_h1) ==
  IF i > Len(ps) THEN ps
  ELSE LET p == ps[i]
           is_special_font == \E r \in 1..Len(p.runs) : p.runs[r].name \in {"Wingdings", "Wingdings 2", "Symbol"}
           plain == IF is_special_font THEN p
                    ELSE [p EXCEPT !.alignment = "JUSTIFY",
                                   !.space_before = 0, !.space_after = 0,
                                   !.runs = [r \in 1..Len(p.runs) |->
                                               [name |-> "Segoe UI", size |-> 10]]]
           q == IF StartsWithHeading(p.style)
                THEN [p EXCEPT !.runs = [r \in 1..Len(p.runs) |->
                                           [name |-> "Cambria",
                                            size |-> HeadingSize(p.style)]]]
                ELSE IF in_h1
                THEN [plain EXCEPT !.line_spacing = 319, !.space_before = 6,
                                   !.space_after = 6]
                ELSE plain
       IN  format_paragraphs_and_headings(
             [ps EXCEPT ![i] = q], i + 1,
             IF StartsWithHeading(p.style) THEN p.style = "Heading 1" ELSE in_h1)

\* for table in doc.tables: cells only, and there is no table.
format_tables(ps) == ps

format_images(ps) ==
  [i \in 1..Len(ps) |-> IF ps[i].image THEN [ps[i] EXCEPT !.alignment = "CENTER"]
                        ELSE ps[i]]

\* Only header paragraphs holding "[DATE]" change.
format_headers_and_footers(ps) == ps

update_doc_properties(filepath) ==
  [n \in PropNames |->
     CASE n \in {"title", "keywords"} -> base_name(filepath)
       [] n = "subject" -> <<"Formatted Document: ">> \o base_name(filepath)
       [] n = "comments" ->
            <<"This document was automatically formatted on ">> \o <<"2026-01-01">>
       [] OTHER -> <<"Formatted Reports">>]

\* f"{base}_formatted{ext}" with base, ext = os.path.splitext(input_path)
output_path(input_path) ==
  IF splitext0(input_path) = input_path THEN input_path \o <<"_formatted">>
  ELSE splitext0(input_path) \o <<"_formatted", input_path[Len(input_path)]>>

OneShotPasses ==
  << "format_paragraphs_and_headings", "format_tables", "format_images",
     "format_headers_and_footers", "update_doc_properties", "returned" >>

InitOneShot ==
  /\ \E ps \in { <<p>> : p \in RichParas }
                  \cup { <<p, q>> : p \in PlainParas, q \in PlainParas } :
       oneshot = [pass |-> 1, input_path |-> R_DOCX, paragraphs |-> ps,
                  loaded |-> ps, props |-> StaleProps, saved |-> <<>>]
  /\ CheckerIdle
  /\ formatter_ui = <<>>
  /\ translator_ui = <<>>
  /\ server = <<>>
  /\ chrome = <<>>
  /\ pipeline = <<>>
  /\ extract = <<>>

\* process_document, one pass at a time; the last one saves and returns.
process_document ==
  /\ oneshot.pass < Len(OneShotPasses)
  /\ LET name == OneShotPasses[oneshot.pass]
         ps   == oneshot.paragraphs
     IN  oneshot' =
           [oneshot EXCEPT
              !.pass = @ + 1,
              !.paragraphs =
                 CASE name = "format_paragraphs_and_headings" ->
                        format_paragraphs_and_headings(ps, 1, FALSE)
                   [] name = "format_tables" -> format_tables(ps)
                   [] name = "format_images" -> format_images(ps)
                   [] name = "format_headers_and_footers" ->
                        format_headers_and_footers(ps)
                   [] OTHER -> ps,
              !.props = IF name = "update_doc_properties"
                        THEN update_doc_properties(oneshot.input_path) ELSE @,
              !.saved = IF name = "update_doc_properties"
                        THEN output_path(oneshot.input_path) ELSE @]
  /\ UNCHANGED <<checker_vars, formatter_ui, translator_ui, server, chrome,
                 pipeline, extract>>

SpecOneShot == InitOneShot /\ [][process_document]_vars

\* C23: when process_document has returned, every Heading 1/2/3 paragraph is
\* left-aligned with all runs Cambria at 28/20/14 pt, and every body-level
\* paragraph with an embedded image is CENTER.
C23_OneShotFormats ==
  oneshot.pass = Len(OneShotPasses) =>
    \A i \in 1..Len(oneshot.paragraphs) :
      LET p == oneshot.paragraphs[i]
      IN  /\ p.style \in HeadingSpecs =>
               /\ p.alignment = "LEFT"
               /\ \A r \in 1..Len(p.runs) :
                    p.runs[r] = [name |-> "Cambria", size |-> HeadingSize(p.style)]
          /\ p.image => p.alignment = "CENTER"

(* ------------------------------------------------------------------ *)
(* server.py: POST /translate/ on one event loop. A handler runs      *)
(* without interruption up to its first await inside playwright:      *)
(* the upload is written, the pages are rendered and                  *)
(* launch_chrome_if_needed has returned. Every request attaches to the *)
(* one browser behind REMOTE (port 9222).                             *)
(* ------------------------------------------------------------------ *)

MaxPages == 2

Requests == {1, 2}

InitServer ==
  /\ \E up \in BOOLEAN :
       server = [browser |-> up, sessions |-> {},
                 req |-> [r \in Requests |->
                            [pc |-> "idle", left |-> 0, err |-> "none"]]]
  /\ CheckerIdle
  /\ formatter_ui = <<>>
  /\ translator_ui = <<>>
  /\ oneshot = <<>>
  /\ chrome = <<>>
  /\ pipeline = <<>>
  /\ extract = <<>>

\* translate: the upload is saved, translate_pdf renders n pages and
\* translate_images calls launch_chrome_if_needed; ok is FALSE when one of these
\* raises (no page, no browser executable, the endpoint does not come up).
translate(r, n, ok) ==
  /\ server.req[r].pc \in {"idle", "returned", "failed"}
  /\ IF ok
     THEN server' = [server EXCEPT !.browser = TRUE,
                                   !.req[r] = [pc |-> "connect_over_cdp", left |-> n,
                                               err |-> "none"]]
     ELSE server' = [server EXCEPT !.req[r] = [pc |-> "failed", left |-> n,
                                               err |-> "own"]]
  /\ UNCHANGED <<checker_vars, formatter_ui, translator_ui, oneshot, chrome, pipeline,
                 extract>>

\* browser = await pw.chromium.connect_over_cdp(REMOTE), and the new page
connect_over_cdp(r) ==
  /\ server.req[r].pc = "connect_over_cdp"
  /\ IF server.browser
     THEN server' = [server EXCEPT !.sessions = @ \cup {r},
                                   !.req[r].pc = "translate_images"]
     ELSE server' = [server EXCEPT !.req[r].pc = "failed",
                                   !.req[r].err = "browser closed"]
  /\ UNCHANGED <<checker_vars, formatter_ui, translator_ui, oneshot, chrome, pipeline,
                 extract>>

\* One turn of the loop over img_paths (upload, wait, download), or page.close()
\* after the last one; any playwright call on a closed browser raises.
translate_page(r, ok) ==
  /\ server.req[r].pc = "translate_images"
  /\ IF r \notin server.sessions
     THEN server' = [server EXCEPT !.req[r].pc = "finally",
                                   !.req[r].err = "browser closed"]
     ELSE IF server.req[r].left = 0
     THEN server' = [server EXCEPT !.req[r].pc = "finally"]
     ELSE IF ok
     THEN server' = [server EXCEPT !.req[r].left = @ - 1]
     ELSE server' = [server EXCEPT !.req[r].pc = "finally", !.req[r].err = "own"]
  /\ UNCHANGED <<checker_vars, formatter_ui, translator_ui, oneshot, chrome, pipeline,
                 extract>>

\* finally: close_browser is True: Browser.close over CDP, then browser.close();
\* what these raise is swallowed.
close_browser(r) ==
  /\ server.req[r].pc = "finally"
  /\ server' = [server EXCEPT
                  !.browser = FALSE,
                  !.sessions = {},
                  !.req[r].pc = IF server.req[r].err = "none"
                                THEN "build_pdf" ELSE "failed"]
  /\ UNCHANGED <<checker_vars, formatter_ui, translator_ui, oneshot, chrome, pipeline,
                 extract>>

\* build_pdf, the cleanup, and the FileResponse of this request's output_path
FileResponse(r) ==
  /\ server.req[r].pc = "build_pdf"
  /\ server' = [server EXCEPT !.req[r].pc = "returned"]
  /\ UNCHANGED <<checker_vars, formatter_ui, translator_ui, oneshot, chrome, pipeline,
                 extract>>

NextServer ==
  \/ \E r \in Requests, n \in 1..MaxPages, ok \in BOOLEAN : translate(r, n, ok)
  \/ \E r \in Requests : connect_over_cdp(r)
  \/ \E r \in Requests, ok \in BOOLEAN : translate_page(r, ok)
  \/ \E r \in Requests : close_browser(r)
  \/ \E r \in Requests : FileResponse(r)

SpecServer == InitServer /\ [][NextServer]_vars

\* C25: a request that is in its translate_images loop has a live browser
\* session, and no request fails because the browser was closed under it.
C25_NoInterference ==
  \A r \in Requests :
    /\ server.req[r].pc = "translate_images" => r \in server.sessions
    /\ server.req[r].err # "browser closed"

(* ------------------------------------------------------------------ *)
(* launch_chrome_if_needed (backup.py, superback.py, bot.py, new.py): *)
(* one call. A probe of the debug endpoint (dbg_ready) answers        *)
(* "ready" (status 200), "not ready" (URLError, or another status),   *)
(* or "raises": urlopen wraps only the errors of sending the request  *)
(* as URLError; a reset or a timeout while the response is read is    *)
(* raised as it is, and dbg_ready catches URLError only.              *)
(* ------------------------------------------------------------------ *)

MaxPolls == 60

InitLaunch ==
  /\ \E exe \in BOOLEAN :
       chrome = [pc |-> "called", exe |-> exe, spawned |-> 0, polls |-> 0,
                 first |-> "none", last |-> "none", error |-> "none"]
  /\ CheckerIdle
  /\ formatter_ui = <<>>
  /\ translator_ui = <<>>
  /\ oneshot = <<>>
  /\ server = <<>>
  /\ pipeline = <<>>
  /\ extract = <<>>

\* A loop that starts the browser again after every failed poll.
poll_Respawning(outcome) ==
  /\ chrome.pc = "polling"
  /\ chrome.polls < MaxPolls
  /\ chrome' =
       CASE outcome = "ready" -> [chrome EXCEPT !.pc = "returned", !.last = outcome]
         [] outcome = "raises" ->
              [chrome EXCEPT !.pc = "raised", !.last = outcome, !.error = "Exception"]
         [] OTHER -> [chrome EXCEPT !.polls = @ + 1, !.last = outcome,
                                    !.spawned = @ + 1]
  /\ UNCHANGED <<checker_vars, formatter_ui, translator_ui, oneshot, server, pipeline,
                 extract>>

\* if dbg_ready(): return; exe = find_browser_exe(); subprocess.Popen(args)
launch_chrome_if_needed(outcome) ==
  /\ chrome.pc = "called"
  /\ chrome' =
       CASE outcome = "ready" ->
              [chrome EXCEPT !.pc = "returned", !.first = outcome, !.last = outcome]
         [] outcome = "raises" ->
              [chrome EXCEPT !.pc = "raised", !.first = outcome, !.last = outcome,
                             !.error = "Exception"]
         [] OTHER ->
              IF ~chrome.exe
              THEN [chrome EXCEPT !.pc = "raised", !.first = outcome,
                                  !.last = outcome, !.error = "FileNotFoundError"]
              ELSE [chrome EXCEPT !.pc = "polling", !.first = outcome,
                                  !.last = outcome, !.spawned = @ + 1]
  /\ UNCHANGED <<checker_vars, formatter_ui, translator_ui, oneshot, server, pipeline,
                 extract>>

\* for _ in range(60): if dbg_ready(): return; time.sleep(0.25)
poll(outcome) ==
  /\ chrome.pc = "polling"
  /\ chrome.polls < MaxPolls
  /\ chrome' =
       CASE outcome = "ready" -> [chrome EXCEPT !.pc = "returned", !.last = outcome]
         [] outcome = "raises" ->
              [chrome EXCEPT !.pc = "raised", !.last = outcome, !.error = "Exception"]
         [] OTHER -> [chrome EXCEPT !.polls = @ + 1, !.last = outcome]
  /\ UNCHANGED <<checker_vars, formatter_ui, translator_ui, oneshot, server, pipeline,
                 extract>>

\* raise TimeoutError("Could not start Chrome with remote debugging port.")
raise_TimeoutError ==
  /\ chrome.pc = "polling"
  /\ chrome.polls = MaxPolls
  /\ chrome' = [chrome EXCEPT !.pc = "raised", !.error = "TimeoutError"]
  /\ UNCHANGED <<checker_vars, formatter_ui, translator_ui, oneshot, server, pipeline,
                 extract>>

NextLaunch ==
  \/ \E outcome \in {"ready", "not ready", "raises"} : launch_chrome_if_needed(outcome)
  \/ \E outcome \in {"ready", "not ready", "raises"} : poll(outcome)
  \/ raise_TimeoutError

\* The call runs on: a step that can be taken is taken.
SpecLaunch == InitLaunch /\ [][NextLaunch]_vars /\ WF_vars(NextLaunch)

IMG_EXTS == {".png", ".jpg", ".jpeg", ".webp", ".bmp", ".tif", ".tiff"}

File(dir, page, suffix) == [dir |-> dir, page |-> page, suffix |-> suffix]

IsImage(f) == f.suffix \in IMG_EXTS

\* What is left of a folder's files when every file is unlinked, images or not.
wipe_images_only_AllFiles(files, locked) == files \cap locked

\* wipe_images_only on raw and translated: the image files are unlinked; an
\* unlink that raises (locked) is passed over.
wipe_images_only(files, locked) ==
  { f \in files : ~IsImage(f) \/ f \in locked }

InitPipeline ==
  /\ \E n \in 0..MaxPages, input \in BOOLEAN :
       pipeline = [pc |-> "translate_pdf", n |-> n, input |-> input, idx |-> 1,
                   results |-> <<>>, order |-> <<>>, files |-> {}, created |-> {},
                   locked |-> {}, out_pdf |-> "none", failed |-> "none"]
  /\ CheckerIdle
  /\ formatter_ui = <<>>
  /\ translator_ui = <<>>
  /\ oneshot = <<>>
  /\ server = <<>>
  /\ chrome = <<>>
  /\ extract = <<>>

Raise(reason) == [pipeline EXCEPT !.pc = "raised", !.failed = reason]

\* translate_pdf up to and with extract_pages: the input is looked up, the run
\* directory made, and the pages saved as page-NNN.png; saved < n when a page
\* cannot be rendered or saved, and a PDF without pages is an error.
translate_pdf(saved) ==
  /\ pipeline.pc = "translate_pdf"
  /\ saved \in 0..pipeline.n
  /\ LET pages == {File("raw", i, ".png") : i \in 1..saved}
     IN  pipeline' =
           IF ~pipeline.input THEN Raise("input")
           ELSE IF saved < pipeline.n \/ pipeline.n = 0
           THEN [Raise("render") EXCEPT !.files = pages, !.created = pages]
           ELSE [pipeline EXCEPT !.pc = "translate_images", !.files = pages,
                                 !.created = pages]
  /\ UNCHANGED <<checker_vars, formatter_ui, translator_ui, oneshot, server, chrome,
                 extract>>

\* A loop that goes on to the next page when one fails.
translate_images_Skipping(outcome) ==
  /\ pipeline.pc = "translate_images"
  /\ pipeline.idx <= pipeline.n
  /\ outcome = "connect" => pipeline.idx = 1
  /\ pipeline' =
       IF outcome \in {"connect", "upload", "download"}
       THEN [pipeline EXCEPT !.idx = @ + 1, !.order = Append(@, pipeline.idx)]
       ELSE LET out_img == File("translated", pipeline.idx, outcome)
            IN  [pipeline EXCEPT !.idx = @ + 1,
                                 !.order = Append(@, pipeline.idx),
                                 !.results = Append(@, out_img),
                                 !.files = @ \cup {out_img},
                                 !.created = @ \cup {out_img}]
  /\ UNCHANGED <<checker_vars, formatter_ui, translator_ui, oneshot, server, chrome,
                 extract>>

\* translate_images: one turn of the loop over img_paths; an outcome that is a
\* suffix is that of the file name the download suggests. Before the first page
\* the browser is attached (connect); upload and download are the turn's calls
\* that can raise; otherwise the download is saved under the page's stem and the
\* suggested suffix, and appended to results.
translate_images(outcome) ==
  /\ pipeline.pc = "translate_images"
  /\ pipeline.idx <= pipeline.n
  /\ outcome = "connect" => pipeline.idx = 1
  /\ pipeline' =
       IF outcome = "connect" THEN Raise("connect")
       ELSE IF outcome \in {"upload", "download"}
       THEN [Raise(outcome) EXCEPT !.order = Append(@, pipeline.idx)]
       ELSE LET out_img == File("translated", pipeline.idx, outcome)
            IN  [pipeline EXCEPT !.idx = @ + 1,
                                 !.order = Append(@, pipeline.idx),
                                 !.results = Append(@, out_img),
                                 !.files = @ \cup {out_img},
                                 !.created = @ \cup {out_img}]
  /\ UNCHANGED <<checker_vars, formatter_ui, translator_ui, oneshot, server, chrome,
                 extract>>

\* build_pdf(translated, output_pdf): images that are not .png/.jpg/.jpeg are
\* saved again as .png beside the download; then the output is opened for
\* writing and img2pdf.convert fills it. normalised and converted tell whether
\* these two steps succeed.
build_pdf(normalised, converted) ==
  /\ pipeline.pc = "translate_images"
  /\ pipeline.idx > pipeline.n
  /\ LET again == { File("translated", pipeline.results[i].page, ".png") :
                      i \in { j \in 1..Len(pipeline.results) :
                                pipeline.results[j].suffix \notin {".png", ".jpg", ".jpeg"} } }
     IN  pipeline' =
           IF ~normalised THEN Raise("build_pdf")
           ELSE IF ~converted
           THEN [Raise("build_pdf") EXCEPT !.files = @ \cup again,
                                           !.created = @ \cup again,
                                           !.out_pdf = "empty"]
           ELSE [pipeline EXCEPT !.pc = "wipe_images_only",
                                 !.files = @ \cup again,
                                 !.created = @ \cup again,
                                 !.out_pdf = "written"]
  /\ UNCHANGED <<checker_vars, formatter_ui, translator_ui, oneshot, server, chrome,
                 extract>>

\* The DOCX is saved (a failure is logged), then wipe_images_only(raw_dir) and
\* wipe_images_only(trans_dir); translate_pdf returns.
cleanup(locked) ==
  /\ pipeline.pc = "wipe_images_only"
  /\ locked \subseteq pipeline.files
  /\ pipeline' = [pipeline EXCEPT !.pc = "returned",
                                  !.locked = locked,
                                  !.files = wipe_images_only(@, locked)]
  /\ UNCHANGED <<checker_vars, formatter_ui, translator_ui, oneshot, server, chrome,
                 extract>>

NextPipeline ==
  \/ \E saved \in 0..MaxPages : translate_pdf(saved)
  \/ \E outcome \in {"connect", "upload", "download", ".png", ".webp", ".gif"} :
       translate_images(outcome)
  \/ \E normalised \in BOOLEAN, converted \in BOOLEAN : build_pdf(normalised, converted)
  \/ \E locked \in SUBSET pipeline.files : cleanup(locked)

SpecPipeline == InitPipeline /\ [][NextPipeline]_vars

\* C27: the pages are handled in input order; once the loop is left normally
\* there is one translated image per page, in page order; a failed upload or
\* download ends translate_pdf with that error, and an output PDF is written
\* only from the results of all pages.
C27_AllOrNothing ==
  /\ \A i \in 1..Len(pipeline.order) : pipeline.order[i] = i
  /\ \A i \in 1..Len(pipeline.results) : pipeline.results[i].page = i
  /\ pipeline.pc \in {"wipe_images_only", "returned"} =>
       Len(pipeline.results) = pipeline.n
  /\ pipeline.failed \in {"upload", "download"} =>
       (pipeline.pc = "raised" /\ pipeline.out_pdf = "none")
  /\ pipeline.out_pdf # "none" =>
       (Len(pipeline.results) = pipeline.n /\ pipeline.failed \notin {"upload", "download"})

\* The download of the second page failed after the first page was translated:
\* translate_pdf has raised and there is no output PDF.
C27_Witness ==
  /\ pipeline.pc = "raised"
  /\ pipeline.failed = "download"
  /\ Len(pipeline.results) = 1
  /\ pipeline.n = 2
  /\ pipeline.out_pdf = "none"

\* C28 (as the code has it): files of the run directory are deleted only after
\* the output PDF was written; on normal return the only files with a suffix in
\* IMG_EXTS that remain are those whose unlink raised, and every other file is
\* in place; when translate_pdf raises, no file of the run has been deleted.
C28_CleanupAfterPdf ==
  /\ pipeline.files # pipeline.created => pipeline.out_pdf = "written"
  /\ pipeline.pc = "returned" =>
       /\ pipeline.out_pdf = "written"
       /\ \A f \in pipeline.files : IsImage(f) => f \in pipeline.locked
       /\ \A f \in pipeline.created : ~IsImage(f) => f \in pipeline.files
       /\ \A f \in pipeline.created : (IsImage(f) /\ f \notin pipeline.locked) =>
            f \notin pipeline.files
  /\ pipeline.pc = "raised" => pipeline.files = pipeline.created

\* translate_pdf has returned: the page images are gone and a download whose
\* suffix is not in IMG_EXTS is in place.
C28_Witness ==
  /\ pipeline.pc = "returned"
  /\ \E f \in pipeline.files : ~IsImage(f)
  /\ \E f \in pipeline.created : IsImage(f) /\ f \notin pipeline.files

\* C28 as stated: on normal return no image file remains in the raw and
\* translated directories.
C28_NoImageRemains ==
  pipeline.pc = "returned" => \A f \in pipeline.files : ~IsImage(f)

(* ------------------------------------------------------------------ *)
(* superback.py: extract_pages, Poppler first and MuPDF as fallback.  *)
(* A rendered page is [page, by]; blank[i] is what is_mostly_blank    *)
(* answers for Poppler's image of page i.                             *)
(* ------------------------------------------------------------------ *)

MaxPdfPages == 5

Page(i, by) == [page |-> i, by |-> by]

\* sample = out_paths[:min(3, len(out_paths))], plus out_paths[-1] when there
\* are more than three
Sample(out_paths) ==
  SubSeq(out_paths, 1, IF Len(out_paths) < 3 THEN Len(out_paths) ELSE 3)
    \o (IF Len(out_paths) > 3 THEN <<out_paths[Len(out_paths)]>> ELSE <<>>)

\* blanks = sum(1 for p in sample if is_mostly_blank(p))
Blanks(sample, blank) ==
  Cardinality({ i \in 1..Len(sample) : blank[sample[i].page] })

\* need_fallback, for the pages Poppler saved
need_fallback(out_paths, blank) ==
  IF out_paths # <<>>
  THEN LET half == Len(Sample(out_paths)) \div 2
       IN  Blanks(Sample(out_paths), blank) >= (IF half > 2 THEN half ELSE 2)
  ELSE TRUE

\* render_with_pymupdf: every page, or RuntimeError without PyMuPDF
render_with_pymupdf(n, fitz) ==
  IF fitz THEN [ok |-> TRUE, out_paths |-> [i \in 1..n |-> Page(i, "MuPDF")]]
  ELSE [ok |-> FALSE, out_paths |-> <<>>]

InitExtract ==
  /\ \E n \in 1..MaxPdfPages, fitz \in BOOLEAN :
       \E produced \in 0..n, blank \in [1..n -> BOOLEAN] :
          extract = [pc |-> "called", n |-> n, produced |-> produced,
                     blank |-> blank, fitz |-> fitz, fallback |-> FALSE,
                     out_paths |-> <<>>]
  /\ CheckerIdle
  /\ formatter_ui = <<>>
  /\ translator_ui = <<>>
  /\ oneshot = <<>>
  /\ server = <<>>
  /\ chrome = <<>>
  /\ pipeline = <<>>

\* extract_pages: Poppler saves the first `produced` pages (fewer than n when
\* convert_from_path or a save raises, which is logged), then the blank test
\* and, if needed, the fallback.
extract_pages ==
  /\ extract.pc = "called"
  /\ LET poppler == [i \in 1..extract.produced |-> Page(i, "Poppler")]
         fb      == need_fallback(poppler, extract.blank)
         mu      == render_with_pymupdf(extract.n, extract.fitz)
     IN  extract' =
           IF ~fb
           THEN [extract EXCEPT !.pc = "returned", !.out_paths = poppler]
           ELSE [extract EXCEPT !.pc = IF mu.ok THEN "returned" ELSE "raised",
                                !.fallback = TRUE,
                                !.out_paths = mu.out_paths]
  /\ UNCHANGED <<checker_vars, formatter_ui, translator_ui, oneshot, server, chrome,
                 pipeline>>

SpecExtract == InitExtract /\ [][extract_pages]_vars

\* The sampled pages of what Poppler saved: all blank, none blank.
SampledAllBlank ==
  \A i \in 1..Len(Sample([j \in 1..extract.produced |-> j])) :
     extract.blank[Sample([j \in 1..extract.produced |-> j])[i]]

SampledNoneBlank ==
  \A i \in 1..Len(Sample([j \in 1..extract.produced |-> j])) :
     ~extract.blank[Sample([j \in 1..extract.produced |-> j])[i]]

\* C30: when extract_pages has ended: if Poppler saved no page, or every
\* sampled page is mostly blank, the fallback was taken (all pages by MuPDF, or
\* an error); if Poppler saved pages and no sampled page is blank, the result
\* is Poppler's images, one per page of the PDF in page order.
C30_BlankFallback ==
  extract.pc # "called" =>
    /\ (extract.produced = 0 \/ SampledAllBlank) =>
         /\ extract.fallback
         /\ extract.pc = "returned" =>
              extract.out_paths = [i \in 1..extract.n |-> Page(i, "MuPDF")]
    /\ (extract.produced > 0 /\ SampledNoneBlank) =>
         extract.out_paths = [i \in 1..extract.n |-> Page(i, "Poppler")]

====
